---- MODULE Spec2Model ----
(***************************************************************************)
(* A model of mini-math: Vector3 / Point / Vector4 / Matrix4 and the       *)
(* transform construction, composition, application and inversion code of *)
(* src/src/matrix.rs, src/src/operators.rs and src/src/vector.rs.          *)
(*                                                                         *)
(* Scalars.  An f32 is modelled as a pair <<n, d>>:                        *)
(*     d > 0          the finite value n/d, in lowest terms                *)
(*     <<1, 0>>       +infinity                                            *)
(*     <<-1, 0>>      -infinity                                            *)
(*     <<0, 0>>       NaN                                                  *)
(* Finite arithmetic is exact (rounding, overflow and the sign of zero are *)
(* not modelled); the non-finite values follow IEEE 754: x/0 is infinite,  *)
(* 0/0, 0*inf and inf-inf are NaN, and NaN compares unequal to everything. *)
(*                                                                         *)
(* Layout.  Matrix4 is [Vector4; 4]; self.0[i][j] of the source is         *)
(* M[i+1][j+1] here (TLA+ tuples are 1-based), written at(M, i, j).        *)
(***************************************************************************)
EXTENDS Integers, Sequences, FiniteSets, TLC

VARIABLES m, arr, call, steps

vars == <<m, arr, call, steps>>

-----------------------------------------------------------------------------
(* f32 arithmetic *)

RECURSIVE gcd(_, _)
gcd(a, b) == IF b = 0 THEN a ELSE gcd(b, a % b)

abs(n) == IF n < 0 THEN -n ELSE n

sign(n) == IF n < 0 THEN -1 ELSE IF n > 0 THEN 1 ELSE 0

\* the canonical pair for the quotient n/d
ratio(n, d) ==
    IF d = 0 THEN <<sign(n), 0>>
    ELSE IF d = 1 THEN <<n, 1>>
    ELSE LET g == gcd(abs(n), abs(d))
         IN  <<(sign(d) * n) \div g, abs(d) \div g>>

f32(n) == <<n, 1>>

NAN == <<0, 0>>

INFINITY == <<1, 0>>

NEG_INFINITY == <<-1, 0>>

is_finite(a) == a[2] # 0

is_nan(a) == a = NAN

f_neg(a) == <<-a[1], a[2]>>

f_add(a, b) ==
    IF a[2] = 0 /\ b[2] = 0
    THEN (IF a = b THEN a ELSE NAN)
    ELSE ratio(a[1] * b[2] + b[1] * a[2], a[2] * b[2])

f_sub(a, b) == f_add(a, f_neg(b))

f_mul(a, b) == ratio(a[1] * b[1], a[2] * b[2])

f_div(a, b) == ratio(a[1] * b[2], a[2] * b[1])

\* a == b on f32: false whenever either side is NaN
f_eq(a, b) == a = b /\ ~is_nan(a)

\* a > b on f32: false whenever either side is NaN
f_gt(a, b) ==
    /\ ~is_nan(a)
    /\ ~is_nan(b)
    /\ a # b
    /\ IF a[2] = 0 THEN a[1] > 0
       ELSE IF b[2] = 0 THEN b[1] < 0
       ELSE a[1] * b[2] > b[1] * a[2]

\* a >= b on f32: false whenever either side is NaN
f_ge(a, b) == f_gt(a, b) \/ f_eq(a, b)

\* f32::min and f32::max: a NaN operand is ignored
f_min(a, b) == IF is_nan(a) THEN b ELSE IF is_nan(b) THEN a
               ELSE IF f_gt(a, b) THEN b ELSE a

f_max(a, b) == IF is_nan(a) THEN b ELSE IF is_nan(b) THEN a
               ELSE IF f_gt(a, b) THEN a ELSE b

\* the integer square root of a natural number (largest r with r*r <= n)
isqrt(n) == CHOOSE r \in 0..n : r * r <= n /\ (r + 1) * (r + 1) > n

is_square(n) == n >= 0 /\ isqrt(n) * isqrt(n) = n

\* f32::sqrt where the root is exact: NaN below zero, +inf and NaN unchanged
exact_sqrt(a) == a[2] = 0 \/ a[1] < 0 \/ (is_square(a[1]) /\ is_square(a[2]))

f_sqrt(a) ==
    IF a[2] = 0 THEN (IF a[1] < 0 THEN NAN ELSE a)
    ELSE IF a[1] < 0 THEN NAN
    ELSE <<isqrt(a[1]), isqrt(a[2])>>

-----------------------------------------------------------------------------
(* Vector3, Point, Vector4: src/src/vector.rs.  A Vector3 or Point is      *)
(* <<x, y, z>>, a Vector4 is <<x, y, z, w>>.                                *)

vector3_new(x, y, z) == <<x, y, z>>

point_new(x, y, z) == <<x, y, z>>

vector4_new(x, y, z, w) == <<x, y, z, w>>

vector3_from_scalar(s) == <<s, s, s>>

vector4_from_scalar(s) == <<s, s, s, s>>

point_zero == <<f32(0), f32(0), f32(0)>>

\* [..].iter().sum(): a left fold of + from 0.0
RECURSIVE sum(_)
sum(s) == IF s = <<>> THEN f32(0)
          ELSE f_add(sum(SubSeq(s, 1, Len(s) - 1)), s[Len(s)])

dot(a, b) == sum([i \in 1..Len(a) |-> f_mul(a[i], b[i])])

\* lerp without the clamp of its factor
lerp_unclamped(a, b, factor) ==
    [i \in 1..Len(a) |->
        f_add(f_mul(a[i], f_sub(f32(1), factor)), f_mul(b[i], factor))]

lerp(a, b, factor) ==
    LET t == f_max(f_min(factor, f32(1)), f32(0))
    IN  [i \in 1..Len(a) |-> f_add(f_mul(a[i], f_sub(f32(1), t)), f_mul(b[i], t))]

\* Vector * f32
vector_mul_scalar(a, t) == [i \in 1..Len(a) |-> f_mul(a[i], t)]

\* Index<usize> that wraps an index past the end around instead of checking it
index_wrapping(a, i) == [panicked |-> FALSE, value |-> a[(i % Len(a)) + 1]]

\* Index<usize>: [&self.x, &self.y, ..][i], component i counted from 0; the
\* array's bounds check panics for an i past the last field
index(a, i) ==
    IF i < Len(a) THEN [panicked |-> FALSE, value |-> a[i + 1]]
    ELSE [panicked |-> TRUE]

\* IndexMut<usize>, followed by the store of x through the reference
index_mut(a, i, x) ==
    IF i < Len(a) THEN [panicked |-> FALSE, value |-> [a EXCEPT ![i + 1] = x]]
    ELSE [panicked |-> TRUE]

\* cross with the operands of its y component in the other order
cross_y_reversed(a, b) ==
    <<f_sub(f_mul(a[2], b[3]), f_mul(a[3], b[2])),
      f_sub(f_mul(a[1], b[3]), f_mul(a[3], b[1])),
      f_sub(f_mul(a[1], b[2]), f_mul(a[2], b[1]))>>

cross(a, b) ==
    <<f_sub(f_mul(a[2], b[3]), f_mul(a[3], b[2])),
      f_sub(f_mul(a[3], b[1]), f_mul(a[1], b[3])),
      f_sub(f_mul(a[1], b[2]), f_mul(a[2], b[1]))>>

magnitude_squared(a) == dot(a, a)

magnitude(a) == f_sqrt(magnitude_squared(a))

\* normalized without the test of the magnitude
normalized_unguarded(a) ==
    vector_mul_scalar(a, f_div(f32(1), magnitude(a)))

normalized(a) ==
    LET d == magnitude(a)
    IN  IF f_gt(d, f32(0))
        THEN vector_mul_scalar(a, f_div(f32(1), d))
        ELSE a

vector3_from_point(p) == <<p[1], p[2], p[3]>>

vector3_from_vector4(v) == <<v[1], v[2], v[3]>>

point_from_vector3(v) == <<v[1], v[2], v[3]>>

vector4_from_vector3(v) == <<v[1], v[2], v[3], f32(0)>>

vector4_from_point(p) == <<p[1], p[2], p[3], f32(1)>>

\* vector_op!: the componentwise operators of src/src/operators.rs
vector_add(a, b) == [i \in 1..Len(a) |-> f_add(a[i], b[i])]

vector_sub(a, b) == [i \in 1..Len(a) |-> f_sub(a[i], b[i])]

\* derived PartialEq on a struct of f32 fields
vector_eq(a, b) == \A i \in 1..Len(a) : f_eq(a[i], b[i])

-----------------------------------------------------------------------------
(* Matrix4: src/src/matrix.rs *)

\* self.0[i][j], with the source's 0-based indices
at(M, i, j) == M[i + 1][j + 1]

from_1d_array(a) ==
    <<vector4_new(a[0 + 1], a[1 + 1], a[2 + 1], a[3 + 1]),
      vector4_new(a[4 + 1], a[5 + 1], a[6 + 1], a[4 + 1]),
      vector4_new(a[8 + 1], a[9 + 1], a[10 + 1], a[11 + 1]),
      vector4_new(a[12 + 1], a[13 + 1], a[14 + 1], a[15 + 1])>>

\* a is a 4-tuple of 4-tuples
from_2d_array(a) ==
    <<vector4_new(a[1][1], a[1][2], a[1][3], a[1][4]),
      vector4_new(a[2][1], a[2][2], a[2][3], a[2][4]),
      vector4_new(a[3][1], a[3][2], a[3][3], a[3][4]),
      vector4_new(a[4][1], a[4][2], a[4][3], a[4][4])>>

\* identity with its second row repeated in place of the third
identity_repeated_row ==
    <<vector4_new(f32(1), f32(0), f32(0), f32(0)),
      vector4_new(f32(0), f32(1), f32(0), f32(0)),
      vector4_new(f32(0), f32(1), f32(0), f32(0)),
      vector4_new(f32(0), f32(0), f32(0), f32(1))>>

identity ==
    <<vector4_new(f32(1), f32(0), f32(0), f32(0)),
      vector4_new(f32(0), f32(1), f32(0), f32(0)),
      vector4_new(f32(0), f32(0), f32(1), f32(0)),
      vector4_new(f32(0), f32(0), f32(0), f32(1))>>

zero ==
    <<vector4_new(f32(0), f32(0), f32(0), f32(0)),
      vector4_new(f32(0), f32(0), f32(0), f32(0)),
      vector4_new(f32(0), f32(0), f32(0), f32(0)),
      vector4_new(f32(0), f32(0), f32(0), f32(0))>>

\* look_at with the forward axis stored without its negation
look_at_forward_not_negated(eye, target, up) ==
    LET z_axis  == normalized(vector_sub(target, eye))
        x_axis  == normalized(cross(z_axis, up))
        y_axis  == cross(x_axis, z_axis)
        eye_vec == vector3_from_point(eye)
    IN  <<vector4_new(x_axis[1], y_axis[1], z_axis[1], f32(0)),
          vector4_new(x_axis[2], y_axis[2], z_axis[2], f32(0)),
          vector4_new(x_axis[3], y_axis[3], z_axis[3], f32(0)),
          vector4_new(f_neg(dot(x_axis, eye_vec)),
                      f_neg(dot(y_axis, eye_vec)),
                      dot(z_axis, eye_vec),
                      f32(1))>>

look_at(eye, target, up) ==
    LET z_axis  == normalized(vector_sub(target, eye))
        x_axis  == normalized(cross(z_axis, up))
        y_axis  == cross(x_axis, z_axis)
        eye_vec == vector3_from_point(eye)
    IN  <<vector4_new(x_axis[1], y_axis[1], f_neg(z_axis[1]), f32(0)),
          vector4_new(x_axis[2], y_axis[2], f_neg(z_axis[2]), f32(0)),
          vector4_new(x_axis[3], y_axis[3], f_neg(z_axis[3]), f32(0)),
          vector4_new(f_neg(dot(x_axis, eye_vec)),
                      f_neg(dot(y_axis, eye_vec)),
                      dot(z_axis, eye_vec),
                      f32(1))>>

\* tan(fov / 2) for a field of view of q quarter turns: 0, 1 and -1 at 0,
\* pi/2 and 3*pi/2; the half angle pi/2 (q = 2), where tan has no exact
\* value, is left out
tan_half(q) ==
    CASE q % 4 = 0 -> f32(0)
      [] q % 4 = 1 -> f32(1)
      [] q % 4 = 3 -> f32(-1)

perspective(aspect_ratio, fov_radians, znear, zfar) ==
    LET f == f_div(f32(1), tan_half(fov_radians))
    IN  <<vector4_new(f_div(f, aspect_ratio), f32(0), f32(0), f32(0)),
          vector4_new(f32(0), f, f32(0), f32(0)),
          vector4_new(f32(0), f32(0),
                      f_div(f_add(zfar, znear), f_sub(znear, zfar)), f32(-1)),
          vector4_new(f32(0), f32(0),
                      f_div(f_mul(f_mul(f32(2), zfar), znear), f_sub(znear, zfar)),
                      f32(0))>>

\* translation with the offset written into the last slot of each of the
\* first three vectors instead of into the fourth vector
translation_in_last_slots(v) ==
    <<vector4_new(f32(1), f32(0), f32(0), v[1]),
      vector4_new(f32(0), f32(1), f32(0), v[2]),
      vector4_new(f32(0), f32(0), f32(1), v[3]),
      vector4_new(f32(0), f32(0), f32(0), f32(1))>>

translation(v) ==
    <<vector4_new(f32(1), f32(0), f32(0), f32(0)),
      vector4_new(f32(0), f32(1), f32(0), f32(0)),
      vector4_new(f32(0), f32(0), f32(1), f32(0)),
      vector4_new(v[1], v[2], v[3], f32(1))>>

\* An angle is a whole number of quarter turns, q * pi/2, so that its cosine
\* and sine are exactly 0, 1 or -1.
cos(q) == f32(<<1, 0, -1, 0>>[(q % 4) + 1])

sin(q) == f32(<<0, 1, 0, -1>>[(q % 4) + 1])

rotation_x(angle) ==
    <<vector4_new(f32(1), f32(0), f32(0), f32(0)),
      vector4_new(f32(0), cos(angle), f_neg(sin(angle)), f32(0)),
      vector4_new(f32(0), sin(angle), cos(angle), f32(0)),
      vector4_new(f32(0), f32(0), f32(0), f32(1))>>

rotation_y(angle) ==
    <<vector4_new(cos(angle), f32(0), sin(angle), f32(0)),
      vector4_new(f32(0), f32(1), f32(0), f32(0)),
      vector4_new(f_neg(sin(angle)), f32(0), cos(angle), f32(0)),
      vector4_new(f32(0), f32(0), f32(0), f32(1))>>

rotation_z(angle) ==
    <<vector4_new(cos(angle), f_neg(sin(angle)), f32(0), f32(0)),
      vector4_new(sin(angle), cos(angle), f32(0), f32(0)),
      vector4_new(f32(0), f32(0), f32(1), f32(0)),
      vector4_new(f32(0), f32(0), f32(0), f32(1))>>

uniform_scale(scale) ==
    <<vector4_new(scale, f32(0), f32(0), f32(0)),
      vector4_new(f32(0), scale, f32(0), f32(0)),
      vector4_new(f32(0), f32(0), scale, f32(0)),
      vector4_new(f32(0), f32(0), f32(0), f32(1))>>

row(M, i) == vector4_new(at(M, 0, i), at(M, 1, i), at(M, 2, i), at(M, 3, i))

column(M, i) == M[i + 1]

\* transpose done in place over all i, j: every pair is swapped twice
transpose_swapped_twice(M) == M

transpose(M) ==
    <<<<at(M, 0, 0), at(M, 1, 0), at(M, 2, 0), at(M, 3, 0)>>,
      <<at(M, 0, 1), at(M, 1, 1), at(M, 2, 1), at(M, 3, 1)>>,
      <<at(M, 0, 2), at(M, 1, 2), at(M, 2, 2), at(M, 3, 2)>>,
      <<at(M, 0, 3), at(M, 1, 3), at(M, 2, 3), at(M, 3, 3)>>>>

\* invert, first part: the 16 cofactor sums stored into inv before scaling.
\* p(..) is a product of three entries of self, n(..) the product whose first
\* factor is negated; s6 adds the six terms from left to right.
adjugate(M) ==
    LET p(a, b, c, d, e, f) == f_mul(f_mul(at(M, a, b), at(M, c, d)), at(M, e, f))
        n(a, b, c, d, e, f) ==
            f_mul(f_mul(f_neg(at(M, a, b)), at(M, c, d)), at(M, e, f))
        s6(t1, t2, t3, t4, t5, t6) ==
            f_add(f_add(f_add(f_add(f_add(t1, t2), t3), t4), t5), t6)
        inv00 == s6(p(1, 1, 2, 2, 3, 3), n(1, 1, 2, 3, 3, 2), n(2, 1, 1, 2, 3, 3),
                    p(2, 1, 1, 3, 3, 2), p(3, 1, 1, 2, 2, 3), n(3, 1, 1, 3, 2, 2))
        inv10 == s6(n(1, 0, 2, 2, 3, 3), p(1, 0, 2, 3, 3, 2), p(2, 0, 1, 2, 3, 3),
                    n(2, 0, 1, 3, 3, 2), n(3, 0, 1, 2, 2, 3), p(3, 0, 1, 3, 2, 2))
        inv20 == s6(p(1, 0, 2, 1, 3, 3), n(1, 0, 2, 3, 3, 1), n(2, 0, 1, 1, 3, 3),
                    p(2, 0, 1, 3, 3, 1), p(3, 0, 1, 1, 2, 3), n(3, 0, 1, 3, 2, 1))
        inv30 == s6(n(1, 0, 2, 1, 3, 2), p(1, 0, 2, 2, 3, 1), p(2, 0, 1, 1, 3, 2),
                    n(2, 0, 1, 2, 3, 1), n(3, 0, 1, 1, 2, 2), p(3, 0, 1, 2, 2, 1))
        inv01 == s6(n(0, 1, 2, 2, 3, 3), p(0, 1, 2, 3, 3, 2), p(2, 1, 0, 2, 3, 3),
                    n(2, 1, 0, 3, 3, 2), n(3, 1, 0, 2, 2, 3), p(3, 1, 0, 3, 2, 2))
        inv11 == s6(p(0, 0, 2, 2, 3, 3), n(0, 0, 2, 3, 3, 2), n(2, 0, 0, 2, 3, 3),
                    p(2, 0, 0, 3, 3, 2), p(3, 0, 0, 2, 2, 3), n(3, 0, 0, 3, 2, 2))
        inv21 == s6(n(0, 0, 2, 1, 3, 3), p(0, 0, 2, 3, 3, 1), p(2, 0, 0, 1, 3, 3),
                    n(2, 0, 0, 3, 3, 1), n(3, 0, 0, 1, 2, 3), p(3, 0, 0, 3, 2, 1))
        inv31 == s6(p(0, 0, 2, 1, 3, 2), n(0, 0, 2, 2, 3, 1), n(2, 0, 0, 1, 3, 2),
                    p(2, 0, 0, 2, 3, 1), p(3, 0, 0, 1, 2, 2), n(3, 0, 0, 2, 2, 1))
        inv02 == s6(p(0, 1, 1, 2, 3, 3), n(0, 1, 1, 3, 3, 2), n(1, 1, 0, 2, 3, 3),
                    p(1, 1, 0, 3, 3, 2), p(3, 1, 0, 2, 1, 3), n(3, 1, 0, 3, 1, 2))
        inv12 == s6(n(0, 0, 1, 2, 3, 3), p(0, 0, 1, 3, 3, 2), p(1, 0, 0, 2, 3, 3),
                    n(1, 0, 0, 3, 3, 2), n(3, 0, 0, 2, 1, 3), p(3, 0, 0, 3, 1, 2))
        inv22 == s6(p(0, 0, 1, 1, 3, 3), n(0, 0, 1, 3, 3, 1), n(1, 0, 0, 1, 3, 3),
                    p(1, 0, 0, 3, 3, 1), p(3, 0, 0, 1, 1, 3), n(3, 0, 0, 3, 1, 1))
        inv32 == s6(n(0, 0, 1, 1, 3, 2), p(0, 0, 1, 2, 3, 1), p(1, 0, 0, 1, 3, 2),
                    n(1, 0, 0, 2, 3, 1), n(3, 0, 0, 1, 1, 2), p(3, 0, 0, 2, 1, 1))
        inv03 == s6(n(0, 1, 1, 2, 2, 3), p(0, 1, 1, 3, 2, 2), p(1, 1, 0, 2, 2, 3),
                    n(1, 1, 0, 3, 2, 2), n(2, 1, 0, 2, 1, 3), p(2, 1, 0, 3, 1, 2))
        inv13 == s6(p(0, 0, 1, 2, 2, 3), n(0, 0, 1, 3, 2, 2), n(1, 0, 0, 2, 2, 3),
                    p(1, 0, 0, 3, 2, 2), p(2, 0, 0, 2, 1, 3), n(2, 0, 0, 3, 1, 2))
        inv23 == s6(n(0, 0, 1, 1, 2, 3), p(0, 0, 1, 3, 2, 1), p(1, 0, 0, 1, 2, 3),
                    n(1, 0, 0, 3, 2, 1), n(2, 0, 0, 1, 1, 3), p(2, 0, 0, 3, 1, 1))
        inv33 == s6(p(0, 0, 1, 1, 2, 2), n(0, 0, 1, 2, 2, 1), n(1, 0, 0, 1, 2, 2),
                    p(1, 0, 0, 2, 2, 1), p(2, 0, 0, 1, 1, 2), n(2, 0, 0, 2, 1, 1))
    IN  <<<<inv00, inv01, inv02, inv03>>,
          <<inv10, inv11, inv12, inv13>>,
          <<inv20, inv21, inv22, inv23>>,
          <<inv30, inv31, inv32, inv33>>>>

\* determinant with the cofactors read along the first row of inv instead of
\* down its first column
determinant_row_of_inv(M, inv) ==
    f_add(f_add(f_add(f_mul(at(M, 0, 0), at(inv, 0, 0)),
                      f_mul(at(M, 0, 1), at(inv, 0, 1))),
                f_mul(at(M, 0, 2), at(inv, 0, 2))),
          f_mul(at(M, 0, 3), at(inv, 0, 3)))

\* invert, second part: det, from the first column of self and of inv
determinant(M, inv) ==
    f_add(f_add(f_add(f_mul(at(M, 0, 0), at(inv, 0, 0)),
                      f_mul(at(M, 0, 1), at(inv, 1, 0))),
                f_mul(at(M, 0, 2), at(inv, 2, 0))),
          f_mul(at(M, 0, 3), at(inv, 3, 0)))

\* invert with a guard that hands a singular matrix back unchanged
invert_guarded(M) ==
    LET inv == adjugate(M)
        d   == determinant(M, inv)
    IN  IF d = f32(0) THEN M
        ELSE [i \in 1..4 |-> [j \in 1..4 |-> f_mul(inv[i][j], f_div(f32(1), d))]]

invert(M) ==
    LET inv == adjugate(M)
        det == f_div(f32(1), determinant(M, inv))
    IN  [i \in 1..4 |-> [j \in 1..4 |-> f_mul(inv[i][j], det)]]

as_slice(M) ==
    [k \in 1..16 |-> M[((k - 1) \div 4) + 1][((k - 1) % 4) + 1]]

\* derived PartialEq on Matrix4
matrix_eq(A, B) == \A i \in 1..4 : vector_eq(A[i], B[i])

-----------------------------------------------------------------------------
(* Multiplication: src/src/operators.rs *)

\* the product with the operands' roles exchanged
mul_matrix4_operands_exchanged(self, rhs) ==
    [i \in 1..4 |-> [j \in 1..4 |->
        f_add(f_add(f_add(f_mul(self[i][1], rhs[1][j]),
                          f_mul(self[i][2], rhs[2][j])),
                    f_mul(self[i][3], rhs[3][j])),
              f_mul(self[i][4], rhs[4][j]))]]

mul_matrix4(self, rhs) ==
    [i \in 1..4 |-> [j \in 1..4 |->
        f_add(f_add(f_add(f_mul(rhs[i][1], self[1][j]),
                          f_mul(rhs[i][2], self[2][j])),
                    f_mul(rhs[i][3], self[3][j])),
              f_mul(rhs[i][4], self[4][j]))]]

mul_point(self, rhs) ==
    point_new(
        f_add(f_add(f_add(f_mul(at(self, 0, 0), rhs[1]), f_mul(at(self, 1, 0), rhs[2])),
                    f_mul(at(self, 2, 0), rhs[3])), at(self, 3, 0)),
        f_add(f_add(f_add(f_mul(at(self, 0, 1), rhs[1]), f_mul(at(self, 1, 1), rhs[2])),
                    f_mul(at(self, 2, 1), rhs[3])), at(self, 3, 1)),
        f_add(f_add(f_add(f_mul(at(self, 0, 2), rhs[1]), f_mul(at(self, 1, 2), rhs[2])),
                    f_mul(at(self, 2, 2), rhs[3])), at(self, 3, 2)))

\* Matrix4 * Vector3 written as a copy of Matrix4 * Point: the translation
\* column is added
mul_vector3_with_translation(self, rhs) ==
    vector3_new(
        f_add(f_add(f_add(f_mul(at(self, 0, 0), rhs[1]), f_mul(at(self, 1, 0), rhs[2])),
                    f_mul(at(self, 2, 0), rhs[3])), at(self, 3, 0)),
        f_add(f_add(f_add(f_mul(at(self, 0, 1), rhs[1]), f_mul(at(self, 1, 1), rhs[2])),
                    f_mul(at(self, 2, 1), rhs[3])), at(self, 3, 1)),
        f_add(f_add(f_add(f_mul(at(self, 0, 2), rhs[1]), f_mul(at(self, 1, 2), rhs[2])),
                    f_mul(at(self, 2, 2), rhs[3])), at(self, 3, 2)))

mul_vector3(self, rhs) ==
    vector3_new(
        f_add(f_add(f_mul(at(self, 0, 0), rhs[1]), f_mul(at(self, 1, 0), rhs[2])),
              f_mul(at(self, 2, 0), rhs[3])),
        f_add(f_add(f_mul(at(self, 0, 1), rhs[1]), f_mul(at(self, 1, 1), rhs[2])),
              f_mul(at(self, 2, 1), rhs[3])),
        f_add(f_add(f_mul(at(self, 0, 2), rhs[1]), f_mul(at(self, 1, 2), rhs[2])),
              f_mul(at(self, 2, 2), rhs[3])))

mul_vector4(self, rhs) ==
    vector4_new(dot(row(self, 0), rhs),
                dot(row(self, 1), rhs),
                dot(row(self, 2), rhs),
                dot(row(self, 3), rhs))

\* Point * Matrix4
point_mul_matrix4(self, rhs) ==
    point_new(dot(vector3_from_scalar(self[1]), vector3_from_vector4(column(rhs, 0))),
              dot(vector3_from_scalar(self[2]), vector3_from_vector4(column(rhs, 1))),
              dot(vector3_from_scalar(self[3]), vector3_from_vector4(column(rhs, 2))))

\* Vector3 * Matrix4
vector3_mul_matrix4(self, rhs) ==
    vector3_new(dot(vector3_from_scalar(self[1]), vector3_from_vector4(column(rhs, 0))),
                dot(vector3_from_scalar(self[2]), vector3_from_vector4(column(rhs, 1))),
                dot(vector3_from_scalar(self[3]), vector3_from_vector4(column(rhs, 2))))

\* Vector4 * Matrix4
vector4_mul_matrix4(self, rhs) ==
    vector4_new(dot(vector4_from_scalar(self[1]), column(rhs, 0)),
                dot(vector4_from_scalar(self[2]), column(rhs, 1)),
                dot(vector4_from_scalar(self[3]), column(rhs, 2)),
                dot(vector4_from_scalar(self[4]), column(rhs, 3)))

-----------------------------------------------------------------------------
(* The inputs the callers draw from *)

\* the longest session, counted in calls that build or change the matrix
MaxSteps == 3

\* the most entries of a matrix or array a caller overwrites
MaxEdits == 2

vec3(x, y, z) == vector3_new(f32(x), f32(y), f32(z))

vec4(x, y, z, w) == vector4_new(f32(x), f32(y), f32(z), f32(w))

\* translation offsets, the two of tests::translate among them
Offsets == {vec3(10, 1, 0), vec3(-2, -5, 0), vec3(0, 0, 3)}

\* rotation angles, in quarter turns
Angles == {1}

Scales == {f32(2)}

\* operands of Matrix4 * Point and Matrix4 * Vector3
Points == {vec3(0, 0, 0), vec3(1, 0, 0), vec3(0, 1, 0), vec3(0, 0, 1),
           vec3(1, 2, 3), vec3(-1, 2, 0)}

\* operands of Matrix4 * Vector4
Vectors4 == {vec4(1, 0, 0, 0), vec4(0, 1, 0, 0), vec4(0, 0, 1, 0), vec4(0, 0, 0, 1),
             vec4(1, 2, 3, 1), vec4(-1, 2, 0, 2)}

\* the unit axes
Axes == {vec3(1, 0, 0), vec3(0, 1, 0), vec3(0, 0, 1)}

\* camera positions, distances from eye to target, and up vectors of look_at
Eyes == {vec3(0, 0, 0), vec3(1, 2, 3)}

Distances == {-2, 0, 3}

Ups == {vec3(0, 1, 0), vec3(0, 0, -1)}

\* the arguments of look_at: a target on an axis through the eye (or the eye
\* itself), kept when both normalizations of look_at have exact square roots
Cameras ==
    {c \in [eye : Eyes,
            target : UNION {{vector_add(e, vector_mul_scalar(a, f32(d))) :
                             a \in Axes, d \in Distances} : e \in Eyes},
            up : Ups] :
        LET z == vector_sub(c.target, c.eye)
        IN  /\ exact_sqrt(magnitude_squared(z))
            /\ exact_sqrt(magnitude_squared(cross(normalized(z), c.up)))}

\* the matrix of tests::invert
TestMatrix ==
    from_2d_array(<<<<f32(3), f32(2), f32(1), f32(1)>>,
                    <<f32(2), f32(3), f32(2), f32(2)>>,
                    <<f32(1), f32(2), f32(3), f32(3)>>,
                    <<f32(0), f32(1), f32(1), f32(0)>>>>)

\* the array of tests::slice
TestArray ==
    <<f32(3), f32(2), f32(1), f32(1), f32(2), f32(3), f32(2), f32(2),
      f32(1), f32(2), f32(3), f32(3), f32(0), f32(1), f32(1), f32(0)>>

\* the values a caller writes into an entry
Entries == {f32(-1), f32(0), f32(1), f32(2)}

\* the largest absolute value of a component of a vector operand
MaxCoord == 1

\* operands of the Vector3 operations: the small integer vectors and the two
\* vectors of tests::products
Vectors3 ==
    {vec3(x, y, z) : x \in -MaxCoord..MaxCoord, y \in -MaxCoord..MaxCoord,
                     z \in -MaxCoord..MaxCoord}
        \cup {vec3(3, -5, 4), vec3(2, 6, 5)}

vec2(x, y) == <<f32(x), f32(y)>>

\* the pairs lerp interpolates between: Vector3 pairs, the pair of
\* tests::lerp, a Vector2 pair and a Vector4 pair
LerpPairs ==
    {<<a, b>> : a \in Vectors3, b \in {vec3(0, 1, 0), vec3(2, 6, 5), vec3(-1, -1, 1)}}
        \cup {<<vec2(1, 0), vec2(-2, 3)>>, <<vec4(1, 2, 3, 1), vec4(-1, 2, 0, 2)>>}

\* interpolation factors: below, at, inside and above [0, 1], and the
\* values that are not finite
Factors ==
    {f32(-1), f32(0), <<1, 4>>, <<1, 2>>, <<3, 4>>, f32(1), f32(2),
     INFINITY, NEG_INFINITY, NAN}

\* operands of normalized: the vectors whose magnitude has an exact square
\* root, the zero vector among them
NormalizedInputs ==
    {v \in Vectors3 \cup {vec3(3, 4, 0), vec3(1, -2, 2), vec3(2, 3, 6)} :
        exact_sqrt(magnitude_squared(v))}

\* the largest index a caller passes to Index / IndexMut
MaxIndex == 5

\* operands of Index / IndexMut, one or two of each type
IndexOperands ==
    {[ty |-> "Vector2", v |-> vec2(1, 2)],
     [ty |-> "Vector3", v |-> vec3(1, 2, 3)],
     [ty |-> "Vector3", v |-> vec3(3, -5, 4)],
     [ty |-> "Point", v |-> vec3(-1, 2, 0)],
     [ty |-> "Vector4", v |-> vec4(1, 2, 3, 4)],
     [ty |-> "Vector4", v |-> vec4(-1, 2, 0, 2)]}

\* right operands of Vector4 / Vector3 / Point * Matrix4
RightMatrices ==
    {identity, translation(vec3(10, 1, 0)), rotation_z(1), uniform_scale(f32(2)),
     TestMatrix}

\* the arguments of perspective: aspect ratio, field of view in quarter
\* turns, znear, zfar (fov 0 and znear = zfar, which the code does not guard,
\* among them)
Frustums ==
    {<<f32(a), q, f32(1), f32(zf)>> : a \in {1, 2}, q \in {0, 1, 3}, zf \in {1, 3}}

NoCall == [fn |-> "none"]

-----------------------------------------------------------------------------
(* Spec: a caller starts from the identity or from a look_at view matrix,   *)
(* composes constructed matrices onto m from either side, transposes it,   *)
(* and applies it to points and vectors.  steps counts the calls made.     *)

Init ==
    /\ m = identity
    /\ arr = TestArray
    /\ call = NoCall
    /\ steps = 0

\* m = m * g  or  m = g * m
Compose(g, onRight) ==
    LET self == IF onRight THEN m ELSE g
        rhs  == IF onRight THEN g ELSE m
        ret  == mul_matrix4(self, rhs)
    IN  /\ steps < MaxSteps
        /\ m' = ret
        /\ call' = [fn |-> "mul", self |-> self, rhs |-> rhs, ret |-> ret]
        /\ steps' = steps + 1
        /\ UNCHANGED arr

Translate == \E v \in Offsets, onRight \in BOOLEAN : Compose(translation(v), onRight)

RotateX == \E q \in Angles, onRight \in BOOLEAN : Compose(rotation_x(q), onRight)

RotateY == \E q \in Angles, onRight \in BOOLEAN : Compose(rotation_y(q), onRight)

RotateZ == \E q \in Angles, onRight \in BOOLEAN : Compose(rotation_z(q), onRight)

Scale == \E k \in Scales, onRight \in BOOLEAN : Compose(uniform_scale(k), onRight)

\* m = Matrix4::look_at(eye, target, up): the camera's view matrix, built
\* before anything is composed onto it
LookAt ==
    \E c \in Cameras :
        /\ steps = 0
        /\ m' = look_at(c.eye, c.target, c.up)
        /\ call' = [fn |-> "look_at", eye |-> c.eye, target |-> c.target,
                    up |-> c.up, ret |-> m']
        /\ steps' = steps + 1
        /\ UNCHANGED arr

\* m = m.transpose()
Transpose ==
    /\ steps < MaxSteps
    /\ m' = transpose(m)
    /\ call' = [fn |-> "transpose", self |-> m, ret |-> m']
    /\ steps' = steps + 1
    /\ UNCHANGED arr

\* m * p for a Point p
ApplyPoint ==
    /\ steps < MaxSteps
    /\ \E p \in Points :
        call' = [fn |-> "mul_point", self |-> m, rhs |-> p, ret |-> mul_point(m, p)]
    /\ steps' = steps + 1
    /\ UNCHANGED <<m, arr>>

\* m * v for a Vector3 v
ApplyVector3 ==
    /\ steps < MaxSteps
    /\ \E v \in Points :
        call' = [fn |-> "mul_vector3", self |-> m, rhs |-> v, ret |-> mul_vector3(m, v)]
    /\ steps' = steps + 1
    /\ UNCHANGED <<m, arr>>

\* m * v for a Vector4 v
ApplyVector4 ==
    /\ steps < MaxSteps
    /\ \E v \in Vectors4 :
        call' = [fn |-> "mul_vector4", self |-> m, rhs |-> v, ret |-> mul_vector4(m, v)]
    /\ steps' = steps + 1
    /\ UNCHANGED <<m, arr>>

Next ==
    \/ Translate
    \/ RotateX
    \/ RotateY
    \/ RotateZ
    \/ Scale
    \/ LookAt
    \/ Transpose
    \/ ApplyPoint
    \/ ApplyVector3
    \/ ApplyVector4

Spec == Init /\ [][Next]_vars

-----------------------------------------------------------------------------
(* SpecInvert: a caller overwrites entries of the identity or of the       *)
(* matrix of tests::invert through self.0[i][j] and inverts the result.    *)

InitInvert ==
    /\ m \in {identity, TestMatrix}
    /\ arr = TestArray
    /\ call = NoCall
    /\ steps = 0

\* m.0[i][j] = x  (IndexMut of Vector4)
SetEntry ==
    /\ steps < MaxEdits
    /\ \E i \in 1..4, j \in 1..4, x \in Entries :
        /\ m[i][j] # x
        /\ m' = [m EXCEPT ![i][j] = x]
    /\ call' = NoCall
    /\ steps' = steps + 1
    /\ UNCHANGED arr

\* m.invert()
Invert ==
    /\ call' = [fn |-> "invert", self |-> m, ret |-> invert(m)]
    /\ UNCHANGED <<m, arr, steps>>

NextInvert ==
    \/ SetEntry
    \/ Invert

SpecInvert == InitInvert /\ [][NextInvert]_vars

-----------------------------------------------------------------------------
(* SpecArray: the caller of tests::slice: fill a flat array, build a       *)
(* matrix from it, view the matrix as a slice.                             *)

InitArray ==
    /\ m = identity
    /\ arr = TestArray
    /\ call = NoCall
    /\ steps = 0

\* a[k] = x, before the matrix is built
SetElement ==
    /\ call = NoCall
    /\ steps < MaxEdits
    /\ \E k \in 1..16, x \in Entries :
        /\ arr[k] # x
        /\ arr' = [arr EXCEPT ![k] = x]
    /\ steps' = steps + 1
    /\ UNCHANGED <<m, call>>

\* m = Matrix4::from_1d_array(a)
FromArray ==
    /\ call = NoCall
    /\ m' = from_1d_array(arr)
    /\ call' = [fn |-> "from_1d_array", a |-> arr, ret |-> m']
    /\ UNCHANGED <<arr, steps>>

\* m.as_slice(), on the matrix just built
AsSlice ==
    /\ call.fn = "from_1d_array"
    /\ call' = [fn |-> "as_slice", self |-> m, ret |-> as_slice(m)]
    /\ UNCHANGED <<m, arr, steps>>

NextArray ==
    \/ SetElement
    \/ FromArray
    \/ AsSlice

SpecArray == InitArray /\ [][NextArray]_vars

-----------------------------------------------------------------------------
(* SpecVector: a caller builds operands and makes one call of an operation *)
(* of the vector and point types; call records the call and its result.    *)

InitVector ==
    /\ m = identity
    /\ arr = TestArray
    /\ call = NoCall
    /\ steps = 0

\* v.cross(w)
Cross ==
    /\ steps = 0
    /\ \E v \in Vectors3, w \in Vectors3 :
        call' = [fn |-> "cross", self |-> v, rhs |-> w, ret |-> cross(v, w),
                 panicked |-> FALSE]
    /\ steps' = 1
    /\ UNCHANGED <<m, arr>>

\* v.dot(w)
Dot ==
    /\ steps = 0
    /\ \E v \in Vectors3, w \in Vectors3 :
        call' = [fn |-> "dot", self |-> v, rhs |-> w, ret |-> dot(v, w),
                 panicked |-> FALSE]
    /\ steps' = 1
    /\ UNCHANGED <<m, arr>>

\* a.lerp(b, factor)
Lerp ==
    /\ steps = 0
    /\ \E ab \in LerpPairs, factor \in Factors :
        call' = [fn |-> "lerp", self |-> ab[1], rhs |-> ab[2], factor |-> factor,
                 ret |-> lerp(ab[1], ab[2], factor), panicked |-> FALSE]
    /\ steps' = 1
    /\ UNCHANGED <<m, arr>>

\* v.normalized()
Normalized ==
    /\ steps = 0
    /\ \E v \in NormalizedInputs :
        call' = [fn |-> "normalized", self |-> v, ret |-> normalized(v),
                 panicked |-> FALSE]
    /\ steps' = 1
    /\ UNCHANGED <<m, arr>>

\* v[i]
Index ==
    /\ steps = 0
    /\ \E o \in IndexOperands, i \in 0..MaxIndex :
        call' = [fn |-> "index", ty |-> o.ty, self |-> o.v, i |-> i,
                 ret |-> index(o.v, i), panicked |-> index(o.v, i).panicked]
    /\ steps' = 1
    /\ UNCHANGED <<m, arr>>

\* v[i] = x
IndexMut ==
    /\ steps = 0
    /\ \E o \in IndexOperands, i \in 0..MaxIndex, x \in Entries :
        call' = [fn |-> "index_mut", ty |-> o.ty, self |-> o.v, i |-> i, x |-> x,
                 ret |-> index_mut(o.v, i, x),
                 panicked |-> index_mut(o.v, i, x).panicked]
    /\ steps' = 1
    /\ UNCHANGED <<m, arr>>

\* p * M for a Point p
PointMulMatrix4 ==
    /\ steps = 0
    /\ \E p \in Points, M \in RightMatrices :
        call' = [fn |-> "point_mul_matrix4", self |-> p, rhs |-> M,
                 ret |-> point_mul_matrix4(p, M), panicked |-> FALSE]
    /\ steps' = 1
    /\ UNCHANGED <<m, arr>>

\* v * M for a Vector3 v
Vector3MulMatrix4 ==
    /\ steps = 0
    /\ \E v \in Points, M \in RightMatrices :
        call' = [fn |-> "vector3_mul_matrix4", self |-> v, rhs |-> M,
                 ret |-> vector3_mul_matrix4(v, M), panicked |-> FALSE]
    /\ steps' = 1
    /\ UNCHANGED <<m, arr>>

\* v * M for a Vector4 v
Vector4MulMatrix4 ==
    /\ steps = 0
    /\ \E v \in Vectors4, M \in RightMatrices :
        call' = [fn |-> "vector4_mul_matrix4", self |-> v, rhs |-> M,
                 ret |-> vector4_mul_matrix4(v, M), panicked |-> FALSE]
    /\ steps' = 1
    /\ UNCHANGED <<m, arr>>

NextVector ==
    \/ Cross
    \/ Dot
    \/ Lerp
    \/ Normalized
    \/ Index
    \/ IndexMut
    \/ PointMulMatrix4
    \/ Vector3MulMatrix4
    \/ Vector4MulMatrix4

SpecVector == InitVector /\ [][NextVector]_vars

-----------------------------------------------------------------------------
(* SpecAffine: a caller calls the constructors of Matrix4, and, starting   *)
(* from identity(), multiplies m on either side by matrices built by       *)
(* translation, rotation_x / y / z and uniform_scale only.                 *)

\* a constructor call whose result is looked at and not composed
New(ctor, ret) ==
    /\ steps = 0
    /\ call' = [fn |-> "new", ctor |-> ctor, ret |-> ret]
    /\ UNCHANGED <<m, arr, steps>>

NewIdentity == New("identity", identity)

NewZero == New("zero", zero)

NewFrom2dArray == New("from_2d_array", TestMatrix)

NewTranslation == \E v \in Offsets : New("translation", translation(v))

NewRotation ==
    \E q \in 0..3 :
        \/ New("rotation_x", rotation_x(q))
        \/ New("rotation_y", rotation_y(q))
        \/ New("rotation_z", rotation_z(q))

NewUniformScale == \E k \in Scales : New("uniform_scale", uniform_scale(k))

NewLookAt == \E c \in Cameras : New("look_at", look_at(c.eye, c.target, c.up))

NewPerspective ==
    \E p \in Frustums : New("perspective", perspective(p[1], p[2], p[3], p[4]))

NextAffine ==
    \/ Translate
    \/ RotateX
    \/ RotateY
    \/ RotateZ
    \/ Scale
    \/ NewIdentity
    \/ NewZero
    \/ NewFrom2dArray
    \/ NewTranslation
    \/ NewRotation
    \/ NewUniformScale
    \/ NewLookAt
    \/ NewPerspective

SpecAffine == Init /\ [][NextAffine]_vars

-----------------------------------------------------------------------------
(* Claims *)

\* the determinant invert computes for M, before it takes the reciprocal
det_of(M) == determinant(M, adjugate(M))

\* det * identity
scaled_identity(det) ==
    [i \in 1..4 |-> [j \in 1..4 |-> IF i = j THEN det ELSE f32(0)]]

\* C1: for every matrix M whose determinant is not 0, M.invert() * M is the
\* identity, and, before the scaling by 1/det, adjugate(M) * M is
\* det(M) * identity.
C1_InvertTimesSelfIsIdentity ==
    (call.fn = "invert" /\ det_of(call.self) # f32(0)) =>
        /\ matrix_eq(mul_matrix4(call.ret, call.self), identity)
        /\ matrix_eq(mul_matrix4(adjugate(call.self), call.self),
                     scaled_identity(det_of(call.self)))

\* C1 witness: an edited, dense matrix whose determinant is neither 0, 1 nor
\* -1 has been inverted
C1_Witness ==
    /\ call.fn = "invert"
    /\ steps = MaxEdits
    /\ det_of(call.self) \notin {f32(0), f32(1), f32(-1)}
    /\ \A i \in 1..4 : call.self[i] # identity[i]

\* C8: invert of a singular matrix (determinant 0) returns a matrix, and
\* every one of its 16 entries is infinite or NaN.
C8_SingularInvertIsNonFinite ==
    (call.fn = "invert" /\ det_of(call.self) = f32(0)) =>
        \A i \in 0..3, j \in 0..3 : ~is_finite(at(call.ret, i, j))

\* C8 witness: a singular matrix has been inverted, and the result holds
\* both an infinity (a cofactor that is not 0) and a NaN (a cofactor of 0)
C8_Witness ==
    /\ call.fn = "invert"
    /\ det_of(call.self) = f32(0)
    /\ \E i \in 0..3, j \in 0..3 : at(call.ret, i, j) \in {INFINITY, NEG_INFINITY}
    /\ \E i \in 0..3, j \in 0..3 : is_nan(at(call.ret, i, j))

\* C3: for every 16-element array a, from_1d_array(a).as_slice() has 16
\* elements and element k is a[k] for every k in 0..15.
C3_FlatArrayRoundTrip ==
    call.fn = "as_slice" =>
        /\ Len(call.ret) = 16
        /\ \A k \in 0..15 : f_eq(call.ret[k + 1], arr[k + 1])

\* row(3) == [0, 0, 0, 1]
is_affine(M) == row(M, 3) = vec4(0, 0, 0, 1)

\* the xyz of M.column(3)
offset_of(M) == vector3_from_vector4(column(M, 3))

\* M is translation(t) for some t
is_translation(M) == matrix_eq(M, translation(offset_of(M)))

\* C2: applied with Matrix4 * Vector3 or Matrix4 * Point, a positive quarter
\* turn (cos = 0, sin = 1) is counter-clockwise: rotation_z maps (1,0,0) to
\* (0,1,0), rotation_x maps (0,1,0) to (0,0,1), rotation_y maps (0,0,1) to
\* (1,0,0).
C2_RotationsCounterClockwise ==
    call.fn \in {"mul_vector3", "mul_point"} =>
        /\ (call.self = rotation_z(1) /\ call.rhs = vec3(1, 0, 0))
               => call.ret = vec3(0, 1, 0)
        /\ (call.self = rotation_x(1) /\ call.rhs = vec3(0, 1, 0))
               => call.ret = vec3(0, 0, 1)
        /\ (call.self = rotation_y(1) /\ call.rhs = vec3(0, 0, 1))
               => call.ret = vec3(1, 0, 0)

\* C4: composition agrees with sequential application: (A * B) * v is
\* A * (B * v) for every Vector4 v, and for affine A and B also for every
\* Point and every Vector3.
C4_CompositionAgrees ==
    call.fn = "mul" =>
        /\ \A v \in Vectors4 :
               vector_eq(mul_vector4(call.ret, v),
                         mul_vector4(call.self, mul_vector4(call.rhs, v)))
        /\ (is_affine(call.self) /\ is_affine(call.rhs)) =>
               \A p \in Points :
                   /\ vector_eq(mul_point(call.ret, p),
                                mul_point(call.self, mul_point(call.rhs, p)))
                   /\ vector_eq(mul_vector3(call.ret, p),
                                mul_vector3(call.self, mul_vector3(call.rhs, p)))

\* C4 witness: two matrices that do not commute have been multiplied, the
\* left one not affine
C4_Witness ==
    /\ call.fn = "mul"
    /\ ~is_affine(call.self)
    /\ is_affine(call.rhs)
    /\ ~matrix_eq(call.ret, mul_matrix4(call.rhs, call.self))

\* C4 witness, affine part: two affine matrices that do not commute have
\* been multiplied
C4_WitnessAffine ==
    /\ call.fn = "mul"
    /\ is_affine(call.self)
    /\ is_affine(call.rhs)
    /\ ~matrix_eq(call.ret, mul_matrix4(call.rhs, call.self))

\* C5: translation(a) * translation(b) is translation(a + b) and moves every
\* Point p to p + a + b; translation((10,1,0)) * translation((-2,-5,0)) moves
\* the origin to (8,-4,0).
C5_TranslationsAdd ==
    call.fn = "mul" =>
        /\ (is_translation(call.self) /\ is_translation(call.rhs)) =>
               LET a == offset_of(call.self)
                   b == offset_of(call.rhs)
               IN  /\ matrix_eq(call.ret, translation(vector_add(a, b)))
                   /\ \A p \in Points :
                          vector_eq(mul_point(call.ret, p),
                                    vector_add(vector_add(p, a), b))
        /\ (call.self = translation(vec3(10, 1, 0))
                /\ call.rhs = translation(vec3(-2, -5, 0)))
               => vector_eq(mul_point(call.ret, point_zero), vec3(8, -4, 0))

\* C5 witness: the two translations of tests::translate have been multiplied
C5_Witness ==
    /\ call.fn = "mul"
    /\ call.self = translation(vec3(10, 1, 0))
    /\ call.rhs = translation(vec3(-2, -5, 0))

\* C6: (M * p) - (M * v), for a Vector3 v with the components of the Point p,
\* is the xyz of M.column(3); translation(t) * p is p + t and
\* translation(t) * v is v.
C6_PointTakesTranslationVectorDoesNot ==
    /\ call.fn = "mul_point" =>
        /\ vector_eq(vector_sub(call.ret,
                                mul_vector3(call.self, vector3_from_point(call.rhs))),
                     offset_of(call.self))
        /\ is_translation(call.self) =>
               vector_eq(call.ret, vector_add(call.rhs, offset_of(call.self)))
    /\ call.fn = "mul_vector3" =>
        /\ vector_eq(vector_sub(mul_point(call.self, point_from_vector3(call.rhs)),
                                call.ret),
                     offset_of(call.self))
        /\ is_translation(call.self) => vector_eq(call.ret, call.rhs)

\* C6 witness: a matrix that rotates and translates has been applied to a
\* Vector3 other than zero
C6_Witness ==
    /\ call.fn = "mul_vector3"
    /\ offset_of(call.self) # vec3(0, 0, 0)
    /\ ~is_translation(call.self)
    /\ call.rhs # vec3(0, 0, 0)
    /\ call.ret # call.rhs

\* exactly one component of v is not 0
is_axis_aligned(v) == Cardinality({i \in 1..3 : v[i] # f32(0)}) = 1

\* C7: for eye # target on a common axis and an up vector not parallel to
\* target - eye, look_at(eye, target, up) * eye is the origin and
\* look_at(eye, target, up) * target is (0, 0, -|target - eye|).
C7_LookAtLooksDownMinusZ ==
    (/\ call.fn = "look_at"
     /\ is_axis_aligned(vector_sub(call.target, call.eye))
     /\ cross(vector_sub(call.target, call.eye), call.up) # vec3(0, 0, 0)) =>
        /\ vector_eq(mul_point(call.ret, call.eye), point_zero)
        /\ vector_eq(mul_point(call.ret, call.target),
                     point_new(f32(0), f32(0),
                               f_neg(magnitude(vector_sub(call.target, call.eye)))))

\* C7 witness: a camera away from the origin looks at a target further than
\* one unit away
C7_Witness ==
    /\ call.fn = "look_at"
    /\ call.eye # point_zero
    /\ is_axis_aligned(vector_sub(call.target, call.eye))
    /\ cross(vector_sub(call.target, call.eye), call.up) # vec3(0, 0, 0)
    /\ f_gt(magnitude(vector_sub(call.target, call.eye)), f32(1))

\* C9: M.transpose().0[i][j] is M.0[j][i] for all i, j in 0..3, so
\* M.transpose().transpose() is M, and identity().transpose() is identity().
C9_TransposeIsInvolution ==
    /\ call.fn = "transpose" =>
        /\ \A i \in 0..3, j \in 0..3 : f_eq(at(call.ret, i, j), at(call.self, j, i))
        /\ matrix_eq(transpose(call.ret), call.self)
    /\ matrix_eq(transpose(identity), identity)

\* C9 witness: a matrix that is not symmetric has been transposed
C9_Witness ==
    /\ call.fn = "transpose"
    /\ ~matrix_eq(call.self, call.ret)
    /\ ~is_affine(call.ret)

\* C10: identity() * p is p for every Point p, identity() * v is v for every
\* Vector3 v, and identity() * h is h for every Vector4 h.
C10_IdentityIsNeutral ==
    (call.fn \in {"mul_point", "mul_vector3", "mul_vector4"} /\ call.self = identity)
        => vector_eq(call.ret, call.rhs)

\* C10 witness: the identity has been applied to the Point (1, 2, 3) of
\* tests::identity
C10_Witness ==
    /\ call.fn = "mul_point"
    /\ call.self = identity
    /\ call.rhs = vec3(1, 2, 3)


\* C11: Vector3::cross is the right-handed cross product: x cross y is z,
\* v.cross(v) is the zero vector and v.dot(v.cross(w)) is 0 for all v, w;
\* (3,-5,4) cross (2,6,5) is (-49,-7,28) and (3,-5,4) dot (2,6,5) is -4.
C11_CrossIsRightHanded ==
    /\ call.fn = "cross" =>
        /\ call.self = call.rhs => vector_eq(call.ret, vec3(0, 0, 0))
        /\ f_eq(dot(call.self, call.ret), f32(0))
        /\ (call.self = vec3(1, 0, 0) /\ call.rhs = vec3(0, 1, 0))
               => vector_eq(call.ret, vec3(0, 0, 1))
        /\ (call.self = vec3(3, -5, 4) /\ call.rhs = vec3(2, 6, 5))
               => vector_eq(call.ret, vec3(-49, -7, 28))
    /\ (call.fn = "dot" /\ call.self = vec3(3, -5, 4) /\ call.rhs = vec3(2, 6, 5))
           => f_eq(call.ret, f32(-4))

\* C11 witness: the cross product of the two vectors of tests::products has
\* been taken
C11_Witness ==
    /\ call.fn = "cross"
    /\ call.self = vec3(3, -5, 4)
    /\ call.rhs = vec3(2, 6, 5)
    /\ call.ret # vec3(0, 0, 0)


\* C12: lerp clamps its factor to [0, 1]: a.lerp(b, t) is a for every
\* t <= 0 and b for every t >= 1, and for 0 < t < 1 each component is
\* a*(1-t) + b*t; lerp((1,0,0), (0,1,0), 0.75) is (0.25, 0.75, 0).
C12_LerpClampsFactor ==
    call.fn = "lerp" =>
        LET t == call.factor
        IN  /\ f_ge(f32(0), t) => vector_eq(call.ret, call.self)
            /\ f_ge(t, f32(1)) => vector_eq(call.ret, call.rhs)
            /\ (f_gt(t, f32(0)) /\ f_gt(f32(1), t)) =>
                   \A i \in 1..Len(call.self) :
                       f_eq(call.ret[i],
                            f_add(f_mul(call.self[i], f_sub(f32(1), t)),
                                  f_mul(call.rhs[i], t)))
            /\ (call.self = vec3(1, 0, 0) /\ call.rhs = vec3(0, 1, 0) /\ t = <<3, 4>>)
                   => vector_eq(call.ret, <<<<1, 4>>, <<3, 4>>, f32(0)>>)

\* C12 witness: a factor above 1 has been clamped between two different
\* vectors
C12_Witness ==
    /\ call.fn = "lerp"
    /\ f_gt(call.factor, f32(1))
    /\ call.self # call.rhs
    /\ call.ret = call.rhs

\* C12 witness, the case of tests::lerp
C12_WitnessTest ==
    /\ call.fn = "lerp"
    /\ call.self = vec3(1, 0, 0)
    /\ call.rhs = vec3(0, 1, 0)
    /\ call.factor = <<3, 4>>


\* C13: Vector3::normalized never divides by zero: a vector of magnitude 0
\* is returned unchanged, any other is returned multiplied by 1/magnitude
\* (so the result is finite and of magnitude 1).
C13_NormalizedGuardsZero ==
    call.fn = "normalized" =>
        LET d == magnitude(call.self)
        IN  /\ f_eq(d, f32(0)) => vector_eq(call.ret, call.self)
            /\ ~f_eq(d, f32(0)) =>
                   /\ vector_eq(call.ret,
                                vector_mul_scalar(call.self, f_div(f32(1), d)))
                   /\ f_eq(magnitude(call.ret), f32(1))
            /\ \A i \in 1..3 : is_finite(call.ret[i])
            /\ ~call.panicked

\* C13 witness: the zero vector has been normalized
C13_Witness ==
    /\ call.fn = "normalized"
    /\ call.self = vec3(0, 0, 0)
    /\ call.ret = vec3(0, 0, 0)

\* C13 witness, the other case: a vector of magnitude 3 has been normalized
C13_WitnessScaled ==
    /\ call.fn = "normalized"
    /\ magnitude(call.self) = f32(3)
    /\ call.ret # call.self


\* the number of components of a type
components(ty) ==
    CASE ty = "Vector2" -> 2
      [] ty = "Vector3" -> 3
      [] ty = "Point"   -> 3
      [] ty = "Vector4" -> 4

\* C14: indexed access on an N-component type returns field i (in the order
\* x, y, z, w) for every i in 0..N-1 and panics for every i >= N; no other
\* operation of the vector and point types panics.
C14_IndexIsBoundsChecked ==
    /\ call.fn = "index" =>
        IF call.i < components(call.ty)
        THEN /\ ~call.panicked
             /\ f_eq(call.ret.value, call.self[call.i + 1])
        ELSE call.panicked
    /\ call.fn = "index_mut" =>
        IF call.i < components(call.ty)
        THEN /\ ~call.panicked
             /\ \A k \in 1..components(call.ty) :
                    f_eq(call.ret.value[k],
                         IF k = call.i + 1 THEN call.x ELSE call.self[k])
        ELSE call.panicked
    /\ call.fn \notin {"none", "index", "index_mut"} => ~call.panicked

\* C14 witness: a Vector3 has been indexed at 3, one past its last field
C14_Witness ==
    /\ call.fn = "index"
    /\ call.ty = "Vector3"
    /\ call.i = 3
    /\ call.panicked

\* C14 witness, in range: the w of a Vector4 has been read
C14_WitnessInRange ==
    /\ call.fn = "index"
    /\ call.ty = "Vector4"
    /\ call.i = 3
    /\ call.ret = [panicked |-> FALSE, value |-> f32(4)]


\* C15: vector times matrix is the row-vector product: component i of v * M
\* is v.dot(M.column(i)), so v * M is M.transpose() * v; for a Vector3 or a
\* Point, component i is the dot product with the xyz of M.column(i).
C15_RowVectorProduct ==
    /\ call.fn = "vector4_mul_matrix4" =>
        /\ \A i \in 0..3 : f_eq(call.ret[i + 1], dot(call.self, column(call.rhs, i)))
        /\ vector_eq(call.ret, mul_vector4(transpose(call.rhs), call.self))
    /\ call.fn \in {"vector3_mul_matrix4", "point_mul_matrix4"} =>
        \A i \in 0..2 :
            f_eq(call.ret[i + 1],
                 dot(call.self, vector3_from_vector4(column(call.rhs, i))))


\* the constructors that build a transform
TransformConstructors ==
    {"identity", "look_at", "perspective", "translation", "rotation_x",
     "rotation_y", "rotation_z", "uniform_scale"}

====
